---- MODULE Spec2Model ----
(***************************************************************************)
(* Stroke compositing engine of pigment-perfect-paint.                     *)
(*                                                                         *)
(* AppContext (drawing, currentLine, lines), Canvas (eight ping-pong       *)
(* buffers, activeIndex, displayMode) and Brush (selected colour, the two  *)
(* current colours, flow, pickup, return) are modelled on a one-dimensional *)
(* strip of cells.  A cell stands for one brush footprint; a colour is one  *)
(* 8-bit channel plus 8-bit alpha, as stored in the RGBA8 textures.         *)
(* Fractions (flow, pickup, return) are percentages, as on the UI sliders.  *)
(***************************************************************************)
EXTENDS Integers, Sequences, FiniteSets, TLC

\* ---------------------------------------------------------------- bounds
MaxEvents == 6      \* handler calls (pointer, resize and UI events) in one run

\* ------------------------------------------------------------ page layout
\* cells of the canvas element covered by #canvas-area and #palette-area;
\* the remaining cells belong to neither drawable area
Pos == 0..3
CanvasArea == {0, 1}
PaletteArea == {2}

Layers == {"canvas", "palette"}
Modes == {"mixbox", "rgb"}

\* -------------------------------------------------------------- constants
Byte == 255
Percent == 100
BackgroundColor == 255
AlphaThreshold == 10
Opacity == 0
SegmentSize == 4
Overlap == 3
DefaultFlow == 30
DefaultPickup == 90
DefaultReturn == 10
DefaultSize == 24
CobaltBlue == 164
SizeFactor == 6
SegmentsPerSegment == 24
Swatches == {50, 164}

\* ------------------------------------------------------------- arithmetic
Min(a, b) == IF a < b THEN a ELSE b
Max(a, b) == IF a > b THEN a ELSE b

\* the number NaN, a value no setter argument set below uses as a number
NaN == -999

\* Math.max / Math.min: NaN when an argument is NaN
MathMax(a, b) == IF a = NaN \/ b = NaN THEN NaN ELSE Max(a, b)
MathMin(a, b) == IF a = NaN \/ b = NaN THEN NaN ELSE Min(a, b)

\* round-to-nearest quotient of naturals (float results stored in bytes)
RDiv(n, d) == (2 * n + d) \div (2 * d)

\* GLSL mix(x, y, a) / the a*(1-t)+b*t of blendColors, t in percent
Lerp(a, b, t) == RDiv(a * (Percent - t) + b * t, Percent)

\* integer square root
ISqrt(v) == CHOOSE r \in 0..Byte : r * r <= v /\ v < (r + 1) * (r + 1)

\* mixbox latent space.  The library is an external dependency; what is kept
\* of it is its contract: a nonlinear (subtractive) transform whose inverse
\* returns every 8-bit colour exactly.
ToLatent(c) == (Byte - c) * (Byte - c)
FromLatent(l) == Byte - ISqrt(l)

\* ------------------------------------------------------------------ pixels
\* ids is the set of draw calls whose stamps reached the pixel
Transparent == [c |-> 0, a |-> 0, ids |-> {}]
BackgroundPixel == [c |-> BackgroundColor, a |-> Byte, ids |-> {}]

\* what is stored in a pixel
Rgba(px) == [c |-> px.c, a |-> px.a]

\* gl.blendFunc(SRC_ALPHA, ONE_MINUS_SRC_ALPHA), enabled for every draw call
Blend(src, dst) ==
    [c |-> RDiv(src.c * src.a + dst.c * (Byte - src.a), Byte),
     a |-> RDiv(src.a * src.a + dst.a * (Byte - src.a), Byte),
     ids |-> IF src.a = Byte THEN src.ids
             ELSE IF src.a = 0 THEN dst.ids
             ELSE src.ids \cup dst.ids]

\* BRUSH_FRAGMENT_SHADER main: the fragment written for one covered pixel
\* (mask texture value 1), before blending into the destination
Fragment(layerData, color, flow, mode, id) ==
    LET maskAlpha == flow
        alphaB == layerData.a
        fullOpacityAlpha == Lerp(alphaB, Byte, maskAlpha)
        denom == Byte * maskAlpha + alphaB * (Percent - maskAlpha)
        fullStrength ==
            IF denom = 0 THEN 0
            ELSE IF mode = "mixbox"
                 THEN FromLatent(RDiv(ToLatent(layerData.c) * alphaB * (Percent - maskAlpha)
                                      + Byte * maskAlpha * ToLatent(color), denom))
                 ELSE RDiv(layerData.c * alphaB * (Percent - maskAlpha)
                           + Byte * maskAlpha * color, denom)
        whiteValue == RDiv(Byte * (Percent - Opacity), Percent)
        targetBrightness == Max(fullStrength, whiteValue)
        lightenAmount == targetBrightness - fullStrength
        cappedRGB == IF lightenAmount > 0
                     THEN RDiv(fullStrength * (Byte - lightenAmount) + Byte * lightenAmount, Byte)
                     ELSE fullStrength
    IN [c |-> Lerp(layerData.c, cappedRGB, maskAlpha),
        a |-> fullOpacityAlpha,
        ids |-> layerData.ids \cup {id}]

\* ----------------------------------------------------------------- layout
Area(layer) == IF layer = "canvas" THEN CanvasArea ELSE PaletteArea

\* the drawable area a point lies in (isPointInElement, canvas area first)
Region(x) ==
    IF x \in CanvasArea THEN "canvas"
    ELSE IF x \in PaletteArea THEN "palette"
    ELSE "none"

\* enableScissorBasedOnPosition: the cells left writable
ScissorBasedOnPosition(x) ==
    IF x \in CanvasArea THEN CanvasArea
    ELSE IF x \in PaletteArea THEN PaletteArea
    ELSE Pos

\* ---------------------------------------------------------------- buffers
\* gl.clear to transparent, then Background.render(layer) under its scissor
ClearedBuffer(layer) ==
    [p \in Pos |-> IF p \in Area(layer) THEN Blend(BackgroundPixel, Transparent)
                   ELSE Transparent]

\* Canvas.clear / Canvas.resize / initFramebuffers: all eight buffers
ClearedTextures ==
    [l \in Layers |-> [m \in Modes |-> [i \in 0..1 |-> ClearedBuffer(l)]]]

\* a clearPalette that loops over every layer, as Canvas.clear does
ClearEveryLayer(t) == ClearedTextures

\* Canvas.clearPalette: the four palette buffers only
ClearPaletteTextures(t) ==
    [t EXCEPT !["palette"] = [m \in Modes |-> [i \in 0..1 |-> ClearedBuffer("palette")]]]

\* COPY_FRAGMENT_SHADER pass of Brush.draw, scissor disabled
CopyPrevious(prev, dest) == [p \in Pos |-> Blend(prev[p], dest[p])]

\* the stamp loop of Brush.draw: one quad per stamp, clipped by the scissor;
\* u carries the uniforms of the pass
RECURSIVE StampAll(_, _, _, _, _)
StampAll(dest, prev, stamps, k, u) ==
    IF k > Len(stamps) THEN dest
    ELSE LET s == stamps[k]
             d == IF s \in u.scissor
                  THEN [dest EXCEPT ![s] =
                          Blend(Fragment(prev[s], u.color, u.flow, u.mode, u.id), dest[s])]
                  ELSE dest
         IN StampAll(d, prev, stamps, k + 1, u)

\* ------------------------------------------------------------------ lines
NullLine == [points |-> <<>>, color |-> [c |-> 0, a |-> 0], layer |-> "none",
             drawnPointCount |-> 0]

\* new Line(startPoint, color, layer)
NewLine(startPoint, color, layer) ==
    [points |-> <<startPoint>>, color |-> color, layer |-> layer, drawnPointCount |-> 0]

\* points.slice(from, to) on 0-based indices, as a 1-based sequence
Slice(points, from, to) == SubSeq(points, from + 1, Min(to, Len(points)))

\* a getNewPoints that returns the undrawn points only
getUndrawnPoints(line) ==
    IF Len(line.points) <= line.drawnPointCount THEN <<>>
    ELSE Slice(line.points, line.drawnPointCount, Len(line.points))

\* Line.getNewPoints
getNewPoints(line) ==
    IF Len(line.points) <= line.drawnPointCount THEN <<>>
    ELSE Slice(line.points, Max(0, line.drawnPointCount - Overlap), Len(line.points))

\* Line.markAsDrawn
markAsDrawn(line) == [line EXCEPT !.drawnPointCount = Len(line.points)]

\* samplePointsAlongPath: the stamp centres of a window; the cells of the
\* strip are one stamp spacing apart, so the walk visits the window's cells
samplePointsAlongPath(points) == IF Len(points) < SegmentSize THEN <<>> ELSE points

\* Line.catmullRom for one coordinate at t = s / SegmentsPerSegment; the
\* value is the result divided by 2 * SegmentsPerSegment^3
catmullRom(p0, p1, p2, p3, s) ==
    LET n == SegmentsPerSegment
    IN 2 * p1 * n * n * n
       + (p2 - p0) * s * n * n
       + (2 * p0 - 5 * p1 + 4 * p2 - p3) * s * s * n
       + (3 * p1 - p0 - 3 * p2 + p3) * s * s * s

\* Line.buildSmoothPath: SegmentsPerSegment samples per pair of neighbouring
\* points, then the last point itself, on the scale of catmullRom
buildSmoothPath(points) ==
    LET n == SegmentsPerSegment
        last == Len(points) - 1
    IN [k \in 1..(last * n + 1) |->
          IF k = last * n + 1
          THEN 2 * points[last + 1] * n * n * n
          ELSE LET i == (k - 1) \div n
                   s == (k - 1) % n
               IN catmullRom(points[Max(0, i - 1) + 1], points[i + 1], points[i + 2],
                             points[Min(last, i + 2) + 1], s)]

\* no path built yet
NoPaths == [whole |-> <<>>, first |-> <<>>, second |-> <<>>]

\* ------------------------------------------------------------------ brush
\* mixbox.lerp on 8-bit colours
MixboxLerp(a, b, t) ==
    FromLatent(RDiv(ToLatent(a) * (Percent - t) + ToLatent(b) * t, Percent))

\* Brush.blendColors
blendColors(colorA, colorB, t, useMixbox) ==
    [c |-> IF useMixbox THEN MixboxLerp(colorA.c, colorB.c, t) ELSE Lerp(colorA.c, colorB.c, t),
     a |-> Lerp(colorA.a, colorB.a, t)]

\* the readPixels window of updateBrushColorFromCanvas: about a fifth of the
\* brush size, hence inside the cell under the brush
SampleWindow(x) == IF x \in Pos THEN <<x>> ELSE <<>>

RECURSIVE SumValid(_, _, _)
SumValid(pixels, k, acc) ==
    IF k > Len(pixels) THEN acc
    ELSE LET px == pixels[k]
         IN IF px.a * Percent > AlphaThreshold * Byte
            THEN SumValid(pixels, k + 1,
                          [c |-> acc.c + px.c, a |-> acc.a + px.a, n |-> acc.n + 1])
            ELSE SumValid(pixels, k + 1, acc)

NoColor == [c |-> -1, a |-> -1]

\* an average that takes fully opaque pixels only
calculateAverageOpaqueColor(pixels) ==
    LET sum == SumValid(SelectSeq(pixels, LAMBDA px : px.a = Byte), 1,
                        [c |-> 0, a |-> 0, n |-> 0])
    IN IF sum.n > 0 THEN [c |-> RDiv(sum.c, sum.n), a |-> RDiv(sum.a, sum.n)]
       ELSE NoColor

\* Brush.calculateAverageColor
calculateAverageColor(pixels) ==
    LET sum == SumValid(pixels, 1, [c |-> 0, a |-> 0, n |-> 0])
    IN IF sum.n > 0 THEN [c |-> RDiv(sum.c, sum.n), a |-> RDiv(sum.a, sum.n)]
       ELSE NoColor

\* an update that leaves the colour alone when nothing valid was sampled
UpdatedColorIdleWithoutSample(current, framebuffer, x, b, useMixbox) ==
    LET window == SampleWindow(x)
        pixels == [k \in 1..Len(window) |-> framebuffer[window[k]]]
        sampledColor == calculateAverageColor(pixels)
    IN IF sampledColor # NoColor
       THEN blendColors(blendColors(current, sampledColor, b.colorPickupAmount, useMixbox),
                        b.selectedColor, b.colorReturnRate, useMixbox)
       ELSE current

\* one of the two blocks of updateBrushColorFromCanvas
UpdatedColor(current, framebuffer, x, b, useMixbox) ==
    LET window == SampleWindow(x)
        pixels == [k \in 1..Len(window) |-> framebuffer[window[k]]]
        sampledColor == calculateAverageColor(pixels)
    IN IF sampledColor # NoColor
       THEN blendColors(blendColors(current, sampledColor, b.colorPickupAmount, useMixbox),
                        b.selectedColor, b.colorReturnRate, useMixbox)
       ELSE blendColors(current, b.selectedColor, b.colorReturnRate, useMixbox)

\* ----------------------------------------------------------------- state
VARIABLES
    drawing,        \* AppContext.drawing
    currentLine,    \* AppContext.currentLine (NullLine for null)
    lines,          \* AppContext.lines, the stroke ledger
    tex,            \* Canvas: tex[layer][mode][slot][cell]
    activeIndex,    \* Canvas.activeIndex
    displayMode,    \* Canvas.displayMode
    brush,          \* Brush fields
    picked,         \* {[pos, result]} when the last call was pickColor, else {}
    lastOp,         \* the operation that ran last
    drawLog,        \* draw calls since the last full clear: id, scissor region, cells,
                    \* number of points, window, and the size, flow and colour uniforms
    drawCount,      \* number of draw calls since the last full clear
    replays,        \* redrawAll / resizeCanvas calls so far
    startCount,     \* startDrawing calls so far
    events,         \* handler calls so far
    resizeActive,   \* {activeIndex when Canvas.resize last returned}, {} before
    started,        \* brush size and flow when the latest stroke started
    pathLine,       \* a Line used on its own, outside AppContext
    smoothPath,     \* the smoothed paths built from pathLine
    fetchedPoints       \* what getNewPoints last returned for pathLine

engineVars == <<drawing, currentLine, lines, tex, activeIndex, displayMode, brush>>
ghostVars == <<drawLog, drawCount, replays, startCount, resizeActive, started>>
pathVars == <<pathLine, smoothPath, fetchedPoints>>
vars == <<drawing, currentLine, lines, tex, activeIndex, displayMode, brush,
          picked, lastOp, drawLog, drawCount, replays, startCount, events,
          resizeActive, started, pathLine, smoothPath, fetchedPoints>>

\* the part of the state Brush.draw works on
Engine == [tex |-> tex, activeIndex |-> activeIndex, brush |-> brush,
           log |-> drawLog, count |-> drawCount]

\* ---------------------------------------------------------- Canvas access
DefaultLayer == "canvas"

\* the four accessors: textures / framebuffers [activeIndex] or [1 - activeIndex]
getActiveFramebuffer(t, ai, mode, layer) == t[layer][mode][ai]
getPreviousTexture(t, ai, mode, layer) == t[layer][mode][1 - ai]
getInactiveFramebuffer(t, ai, mode, layer) == t[layer][mode][1 - ai]

\* an advance that leaves the index where it is
keepPingPong(ai) == ai

\* Canvas.advancePingPong
advancePingPong(ai) == 1 - ai

\* ------------------------------------------------------------- Brush.draw
\* the layer whose buffers Brush.draw binds for a stroke of the given layer:
\* the accessors are called without their layer argument
DrawLayer(strokeLayer) == DefaultLayer

\* const modes = ['mixbox', 'rgb']
DrawModes == {"mixbox", "rgb"}

\* an update that samples the buffers about to be written
updateBrushColorFromActive(b, t, ai, x) ==
    [b EXCEPT
       !.currentColorMixbox =
           UpdatedColor(b.currentColorMixbox,
                        getActiveFramebuffer(t, ai, "mixbox", DefaultLayer), x, b, TRUE),
       !.currentColorRGB =
           UpdatedColor(b.currentColorRGB,
                        getActiveFramebuffer(t, ai, "rgb", DefaultLayer), x, b, FALSE)]

\* Brush.updateBrushColorFromCanvas
updateBrushColorFromCanvas(b, t, ai, x) ==
    [b EXCEPT
       !.currentColorMixbox =
           UpdatedColor(b.currentColorMixbox,
                        getInactiveFramebuffer(t, ai, "mixbox", DefaultLayer), x, b, TRUE),
       !.currentColorRGB =
           UpdatedColor(b.currentColorRGB,
                        getInactiveFramebuffer(t, ai, "rgb", DefaultLayer), x, b, FALSE)]

\* Brush.draw(line, canvas) for a line with the given points; strokeLayer is
\* the layer of the stroke the points belong to
Draw(g, points, strokeLayer) ==
    LET firstPoint == points[1]
        scissor == ScissorBasedOnPosition(firstPoint)
        stamps == samplePointsAlongPath(points)
        ai == advancePingPong(g.activeIndex)
        b == updateBrushColorFromCanvas(g.brush, g.tex, ai, firstPoint)
        id == g.count + 1
        layer == DrawLayer(strokeLayer)
        Pass(mode) ==
            LET prevTex == getPreviousTexture(g.tex, ai, mode, layer)
                destFbo == getActiveFramebuffer(g.tex, ai, mode, layer)
                currentColor == IF mode = "mixbox" THEN b.currentColorMixbox
                                ELSE b.currentColorRGB
            IN StampAll(CopyPrevious(prevTex, destFbo), prevTex, stamps, 1,
                        [scissor |-> scissor, color |-> currentColor.c,
                         flow |-> b.flow, mode |-> mode, id |-> id])
    IN [tex |-> [g.tex EXCEPT ![layer] =
                    [m \in Modes |-> IF m \in DrawModes
                                       THEN [g.tex[layer][m] EXCEPT ![ai] = Pass(m)]
                                       ELSE g.tex[layer][m]]],
        activeIndex |-> ai,
        brush |-> b,
        log |-> Append(g.log, [id |-> id, region |-> Region(firstPoint),
                               cells |-> {stamps[k] : k \in 1..Len(stamps)} \cap scissor,
                               points |-> Len(points), window |-> points,
                               size |-> b.size, flow |-> b.flow,
                               color |-> [mixbox |-> b.currentColorMixbox.c,
                                          rgb |-> b.currentColorRGB.c]]),
        count |-> id]

\* Brush.drawIncremental: the engine and the line after the call
drawIncremental(g, line) ==
    LET newPoints == getNewPoints(line)
    IN IF Len(newPoints) < SegmentSize
       THEN [g |-> g, line |-> line]
       ELSE [g |-> Draw(g, newPoints, line.layer), line |-> markAsDrawn(line)]

\* ------------------------------------------------------ AppContext.redrawAll
\* a loop that steps by segmentSize: windows that do not overlap
LoopDisjointWindows(points) ==
    [i \in 1..(Len(points) \div SegmentSize) |->
        Slice(points, (i - 1) * SegmentSize, i * SegmentSize)]

\* the windows of the loop for (i = 0; i + segmentSize <= totalPoints; i += 1)
LoopWindows(points) ==
    [i \in 1..Max(0, Len(points) - SegmentSize + 1) |->
        Slice(points, i - 1, i - 1 + SegmentSize)]

\* line.drawnPointCount when that loop ends
LoopDrawnCount(totalPoints) ==
    IF totalPoints >= SegmentSize
    THEN Min((totalPoints - SegmentSize) + SegmentSize, totalPoints)
    ELSE 0

\* the point lists the loop body hands to Brush.draw for one line, in order
LineWindows(line) ==
    LET totalPoints == Len(line.points)
    IN IF totalPoints < SegmentSize
       THEN <<[points |-> line.points, layer |-> line.layer]>>
       ELSE [i \in 1..Len(LoopWindows(line.points)) |->
                [points |-> LoopWindows(line.points)[i], layer |-> line.layer]]
            \o (IF LoopDrawnCount(totalPoints) < totalPoints
                THEN <<[points |-> Slice(line.points, totalPoints - SegmentSize, totalPoints),
                        layer |-> line.layer]>>
                ELSE <<>>)

\* a replay that resets the count and never advances it
RewoundLine(line) == [line EXCEPT !.drawnPointCount = 0]

\* the line as the loop body leaves it
ReplayedLine(line) ==
    [line EXCEPT !.drawnPointCount =
        IF Len(line.points) < SegmentSize THEN 0 ELSE Len(line.points)]

\* the loop over the ledger: every window of every line, in ledger order
RECURSIVE LedgerWindows(_, _)
LedgerWindows(ls, k) ==
    IF k > Len(ls) THEN <<>>
    ELSE LineWindows(ls[k]) \o LedgerWindows(ls, k + 1)

\* the Brush.draw calls of the replay, one after the other
RECURSIVE DrawAll(_, _, _)
DrawAll(g, windows, k) ==
    IF k > Len(windows) THEN g
    ELSE DrawAll(Draw(g, windows[k].points, windows[k].layer), windows, k + 1)

\* webglCanvas.clear() followed by the replay of the ledger
redrawAll(g, ls) ==
    [g |-> DrawAll([g EXCEPT !.tex = ClearedTextures, !.log = <<>>, !.count = 0],
                   LedgerWindows(ls, 1), 1),
     lines |-> [k \in 1..Len(ls) |-> ReplayedLine(ls[k])]]

\* a resize that also rewinds the ping-pong index
CanvasResizeRewinds(g) ==
    [g EXCEPT !.tex = ClearedTextures, !.activeIndex = 0, !.log = <<>>, !.count = 0]

\* Canvas.resize: new storage for the eight textures, cleared to the background
CanvasResize(g) == [g EXCEPT !.tex = ClearedTextures, !.log = <<>>, !.count = 0]

\* ------------------------------------------------------------------- Init
Init ==
    /\ drawing = FALSE
    /\ currentLine = NullLine
    /\ lines = <<>>
    /\ tex = ClearedTextures
    /\ activeIndex = 0
    /\ displayMode = "mixbox"
    /\ brush = [selectedColor |-> [c |-> CobaltBlue, a |-> Byte],
                currentColorMixbox |-> [c |-> CobaltBlue, a |-> Byte],
                currentColorRGB |-> [c |-> CobaltBlue, a |-> Byte],
                size |-> DefaultSize,
                flow |-> DefaultFlow,
                colorPickupAmount |-> DefaultPickup,
                colorReturnRate |-> DefaultReturn]
    /\ picked = {}
    /\ lastOp = "initialize"
    /\ drawLog = <<>>
    /\ drawCount = 0
    /\ replays = 0
    /\ startCount = 0
    /\ events = 0
    /\ resizeActive = {}
    /\ started = [size |-> DefaultSize, flow |-> DefaultFlow]
    /\ pathLine = NullLine
    /\ smoothPath = NoPaths
    /\ fetchedPoints = <<>>

\* ---------------------------------------------------------------- helpers
\* the pointer moves by at most one cell between two events
NextCells(line) ==
    LET last == line.points[Len(line.points)]
    IN {x \in Pos : x = last \/ x = last + 1}

\* the run has room for one more handler call
CanHandle == events < MaxEvents

\* one more handler call
Handled(op) ==
    /\ events' = events + 1
    /\ lastOp' = op
    /\ UNCHANGED pathVars

Done(op) ==
    /\ Handled(op)
    /\ picked' = {}

SetEngine(g) ==
    /\ tex' = g.tex
    /\ activeIndex' = g.activeIndex
    /\ brush' = g.brush
    /\ drawLog' = g.log
    /\ drawCount' = g.count

\* ---------------------------------------------------------------- actions
\* a stroke begun while another is in flight replaces it; what the replaced
\* stroke drew stays in the buffers
StartLine(x, layer) ==
    /\ CanHandle
    /\ startCount' = startCount + 1
    /\ drawing' = TRUE
    /\ currentLine' = NewLine(x, brush.selectedColor, layer)
    /\ started' = [size |-> brush.size, flow |-> brush.flow]
    /\ UNCHANGED <<lines, tex, activeIndex, displayMode, brush,
                   drawLog, drawCount, replays, resizeActive>>

\* AppContext.startDrawing
StartDrawing(x) ==
    /\ StartLine(x, DefaultLayer)
    /\ Done("startDrawing")

\* AppContext.startDrawingOnLayer; no event handler calls it
StartDrawingOnLayer(x, layer) ==
    /\ StartLine(x, layer)
    /\ Done("startDrawingOnLayer")

\* an early return placed after the ping-pong flip
ContinueIdleAfterFlip ==
    /\ activeIndex' = advancePingPong(activeIndex)
    /\ UNCHANGED <<drawing, currentLine, lines, tex, displayMode, brush,
                   drawLog, drawCount, replays, startCount, resizeActive, started>>

\* the early return of continueDrawing
ContinueIdle ==
    UNCHANGED <<drawing, currentLine, lines, tex, activeIndex, displayMode, brush,
                drawLog, drawCount, replays, startCount, resizeActive, started>>

\* AppContext.continueDrawing
ContinueDrawing(x) ==
    /\ CanHandle
    /\ IF ~drawing \/ currentLine = NullLine
       THEN ContinueIdle
       ELSE /\ x \in NextCells(currentLine)
            /\ LET line == [currentLine EXCEPT !.points = Append(@, x)]
                   r == IF Len(line.points) >= SegmentSize
                        THEN drawIncremental(Engine, line)
                        ELSE [g |-> Engine, line |-> line]
               IN /\ currentLine' = r.line
                  /\ SetEngine(r.g)
            /\ UNCHANGED <<drawing, lines, displayMode, replays, startCount, resizeActive,
                           started>>
    /\ Done("continueDrawing")

\* a finalize that pushes the stroke but keeps the working reference
FinalizeKeepingReference ==
    /\ CanHandle
    /\ drawing' = FALSE
    /\ IF currentLine # NullLine
       THEN lines' = Append(lines, currentLine)
       ELSE UNCHANGED lines
    /\ UNCHANGED <<currentLine, tex, activeIndex, displayMode, brush, ghostVars>>
    /\ Done("finalizeCurrentLine")

\* AppContext.finalizeCurrentLine (pointer up, pointer out)
FinalizeCurrentLine ==
    /\ CanHandle
    /\ drawing' = FALSE
    /\ IF currentLine # NullLine
       THEN /\ lines' = Append(lines, currentLine)
            /\ currentLine' = NullLine
       ELSE UNCHANGED <<lines, currentLine>>
    /\ UNCHANGED <<tex, activeIndex, displayMode, brush, ghostVars>>
    /\ Done("finalizeCurrentLine")

\* AppContext.clearPalette
ClearPalette ==
    /\ CanHandle
    /\ tex' = ClearPaletteTextures(tex)
    /\ drawLog' = SelectSeq(drawLog, LAMBDA d : d.region # "palette")
    /\ UNCHANGED <<drawing, currentLine, lines, activeIndex, displayMode, brush,
                   drawCount, replays, startCount, resizeActive, started>>
    /\ Done("clearPalette")

\* AppContext.redrawAll
RedrawAll ==
    /\ CanHandle
    /\ LET r == redrawAll(Engine, lines)
       IN /\ SetEngine(r.g)
          /\ lines' = r.lines
    /\ replays' = replays + 1
    /\ UNCHANGED <<drawing, currentLine, displayMode, startCount, resizeActive, started>>
    /\ Done("redrawAll")

\* AppContext.resizeCanvas: Canvas.resize, Canvas.clear, redrawAll
ResizeCanvas ==
    /\ CanHandle
    /\ LET resized == CanvasResize(Engine)
           r == redrawAll(resized, lines)
       IN /\ resizeActive' = {resized.activeIndex}
          /\ SetEngine(r.g)
          /\ lines' = r.lines
    /\ replays' = replays + 1
    /\ UNCHANGED <<drawing, currentLine, displayMode, startCount, started>>
    /\ Done("resizeCanvas")

\* a toggle that also swaps the ping-pong buffers
ToggleWithPingPong ==
    /\ CanHandle
    /\ displayMode' = IF displayMode = "mixbox" THEN "rgb" ELSE "mixbox"
    /\ activeIndex' = advancePingPong(activeIndex)
    /\ UNCHANGED <<drawing, currentLine, lines, tex, brush, ghostVars>>
    /\ Done("toggleDisplayMode")

\* Canvas.toggleDisplayMode (AppContext.toggleDisplayMode)
ToggleDisplayMode ==
    /\ CanHandle
    /\ displayMode' = IF displayMode = "mixbox" THEN "rgb" ELSE "mixbox"
    /\ UNCHANGED <<drawing, currentLine, lines, tex, activeIndex, brush, ghostVars>>
    /\ Done("toggleDisplayMode")

\* Canvas.setDisplayMode
SetDisplayMode(mode) ==
    /\ CanHandle
    /\ displayMode' = mode
    /\ UNCHANGED <<drawing, currentLine, lines, tex, activeIndex, brush, ghostVars>>
    /\ Done("setDisplayMode")

\* a pickColor that reads the stale buffer of the pair
pickColorFromInactive(t, ai, mode, x) ==
    IF x \in PaletteArea
    THEN LET px == getInactiveFramebuffer(t, ai, mode, "palette")[x]
         IN [c |-> px.c, a |-> px.a]
    ELSE IF x \in CanvasArea
    THEN LET px == getInactiveFramebuffer(t, ai, mode, "canvas")[x]
         IN [c |-> px.c, a |-> px.a]
    ELSE NoColor

\* Canvas.pickColor: the layer is chosen palette first, then canvas
pickColor(t, ai, mode, x) ==
    IF x \in PaletteArea
    THEN LET px == getActiveFramebuffer(t, ai, mode, "palette")[x]
         IN [c |-> px.c, a |-> px.a]
    ELSE IF x \in CanvasArea
    THEN LET px == getActiveFramebuffer(t, ai, mode, "canvas")[x]
         IN [c |-> px.c, a |-> px.a]
    ELSE NoColor

PickColor(x) ==
    /\ CanHandle
    /\ picked' = {[pos |-> x, result |-> pickColor(tex, activeIndex, displayMode, x)]}
    /\ Handled("pickColor")
    /\ UNCHANGED <<engineVars, ghostVars>>

\* Brush.setColor
setColor(b, color) ==
    [b EXCEPT !.selectedColor = color, !.currentColorMixbox = color,
              !.currentColorRGB = color]

\* AppContext.changeBrushColor, from a swatch
ChangeBrushColor(c) ==
    /\ CanHandle
    /\ brush' = IF drawing THEN brush ELSE setColor(brush, [c |-> c, a |-> Byte])
    /\ UNCHANGED <<drawing, currentLine, lines, tex, activeIndex, displayMode, ghostVars>>
    /\ Done("changeBrushColor")

Next ==
    \/ \E x \in Pos : StartDrawing(x)
    \/ \E x \in Pos : ContinueDrawing(x)
    \/ FinalizeCurrentLine
    \/ ClearPalette
    \/ RedrawAll
    \/ ResizeCanvas
    \/ ToggleDisplayMode
    \/ \E mode \in Modes : SetDisplayMode(mode)
    \/ \E x \in Pos : PickColor(x)
    \/ \E c \in Swatches : ChangeBrushColor(c)

Spec == Init /\ [][Next]_vars

\* --------------------------------------------------------- brush settings
\* data-size of the brush size buttons and values of the flow slider
ButtonSizes == {2, 4}
FlowValues == {30, 60}

\* Brush.setSize
setSize(b, size) == [b EXCEPT !.size = MathMax(1, size)]

\* Brush.setFlow, flow in percent
setFlow(b, flow) == [b EXCEPT !.flow = MathMax(0, MathMin(Percent, flow))]

\* the click handler of a brush size button: setBrushSize(size, button)
SetBrushSize(size) ==
    /\ CanHandle
    /\ brush' = setSize(brush, size * SizeFactor)
    /\ UNCHANGED <<drawing, currentLine, lines, tex, activeIndex, displayMode, ghostVars>>
    /\ Done("setBrushSize")

\* AppContext.setBrushFlow, the input handler of the flow slider
SetBrushFlow(flow) ==
    /\ CanHandle
    /\ brush' = IF drawing THEN brush ELSE setFlow(brush, flow)
    /\ UNCHANGED <<drawing, currentLine, lines, tex, activeIndex, displayMode, ghostVars>>
    /\ Done("setBrushFlow")

\* strokes drawn while the size buttons and the flow slider are used
NextBrush ==
    \/ \E x \in Pos : StartDrawing(x)
    \/ \E x \in Pos : ContinueDrawing(x)
    \/ FinalizeCurrentLine
    \/ \E size \in ButtonSizes : SetBrushSize(size)
    \/ \E flow \in FlowValues : SetBrushFlow(flow)

SpecBrush == Init /\ [][NextBrush]_vars

\* ---------------------------------------------------- brush colour update
\* values of the pickup and return sliders, in percent
PickupValues == {0, 50, 100}
ReturnValues == {0, 10, 100}

\* what the default-layer buffers hold under the brush: opaque paint, thin
\* paint just above and just below the sampling threshold, nothing
RegionPixels ==
    {[c |-> 255, a |-> 255], [c |-> 40, a |-> 255], [c |-> 100, a |-> 26],
     [c |-> 100, a |-> 25], [c |-> 0, a |-> 0]}

\* colours the brush may carry when a run of draw calls begins
CarriedColors == {0, 164, 255}

\* Brush.setColorPickupAmount, amount in percent
setColorPickupAmount(b, amount) ==
    [b EXCEPT !.colorPickupAmount = MathMax(0, MathMin(Percent, amount))]

\* Brush.setColorReturnRate, rate in percent
setColorReturnRate(b, rate) ==
    [b EXCEPT !.colorReturnRate = MathMax(0, MathMin(Percent, rate))]

\* buffers whose default layer holds one colour per model everywhere
RegionTextures(pxMixbox, pxRGB) ==
    [l \in Layers |->
        [m \in Modes |->
            [i \in 0..1 |->
                IF l = DefaultLayer
                THEN [p \in Pos |->
                        IF m = "mixbox"
                        THEN [c |-> pxMixbox.c, a |-> pxMixbox.a, ids |-> {}]
                        ELSE [c |-> pxRGB.c, a |-> pxRGB.a, ids |-> {}]]
                ELSE ClearedBuffer(l)]]]

\* a brush with a selected colour, the sliders set, and paint carried over
\* from earlier draw calls, over a region of one colour
InitColor ==
    /\ drawing = TRUE
    /\ currentLine = NewLine(0, [c |-> CobaltBlue, a |-> Byte], DefaultLayer)
    /\ lines = <<>>
    /\ \E pm \in RegionPixels, pr \in RegionPixels : tex = RegionTextures(pm, pr)
    /\ activeIndex = 0
    /\ displayMode = "mixbox"
    /\ \E pickup \in PickupValues, rate \in ReturnValues, carried \in CarriedColors :
          brush = setColorReturnRate(
                    setColorPickupAmount(
                      [selectedColor |-> [c |-> CobaltBlue, a |-> Byte],
                       currentColorMixbox |-> [c |-> carried, a |-> Byte],
                       currentColorRGB |-> [c |-> carried, a |-> Byte],
                       size |-> DefaultSize,
                       flow |-> DefaultFlow,
                       colorPickupAmount |-> DefaultPickup,
                       colorReturnRate |-> DefaultReturn], pickup), rate)
    /\ picked = {}
    /\ lastOp = "initialize"
    /\ drawLog = <<>>
    /\ drawCount = 0
    /\ replays = 0
    /\ startCount = 1
    /\ events = 0
    /\ resizeActive = {}
    /\ started = [size |-> DefaultSize, flow |-> DefaultFlow]
    /\ pathLine = NullLine
    /\ smoothPath = NoPaths
    /\ fetchedPoints = <<>>

\* the updateBrushColorFromCanvas call of one Brush.draw at cell x, over a
\* region that keeps its colour
UpdateBrushColor(x) ==
    /\ CanHandle
    /\ brush' = updateBrushColorFromCanvas(brush, tex, activeIndex, x)
    /\ UNCHANGED <<drawing, currentLine, lines, tex, activeIndex, displayMode, ghostVars>>
    /\ Done("updateBrushColorFromCanvas")

NextColor == \E x \in CanvasArea : UpdateBrushColor(x)

SpecColor == InitColor /\ [][NextColor]_vars

\* the pixel sampled for a model in a region of one colour
RegionColor(mode) == Rgba(getInactiveFramebuffer(tex, activeIndex, mode, DefaultLayer)[0])

\* isValidPixel of calculateAverageColor
PassesThreshold(px) == px.a * Percent > AlphaThreshold * Byte

\* ------------------------------------------------------------ observations
\* the step just taken is a call of op
Step(op) == lastOp' = op /\ events' = events + 1

\* the draw calls whose stamps reached cell p of the active buffer
ActiveIds(layer, mode, p) == tex[layer][mode][activeIndex][p].ids

\* the draw calls composited into a region at cell p, by the log
Composited(layer, p) ==
    {drawLog[k].id : k \in {j \in 1..Len(drawLog) :
                              drawLog[j].region = layer /\ p \in drawLog[j].cells}}

\* the stored contents of the four active buffers
ActiveContents ==
    [l \in Layers |-> [m \in Modes |-> [p \in Pos |-> Rgba(tex[l][m][activeIndex][p])]]]

\* a ledger without the replay bookkeeping of its lines
Strokes(ls) ==
    [k \in 1..Len(ls) |-> [points |-> ls[k].points, color |-> ls[k].color,
                           layer |-> ls[k].layer]]

\* ----------------------------------------------------------------- claims
\* C1: after every Brush.draw, for each of the four region/model pairs the
\* buffer at activeIndex contains every stroke composited so far into that
\* region and model, also when strokes alternate between canvas and palette.
C1_ActiveBufferHoldsHistory ==
    \A l \in Layers, m \in Modes, p \in Pos : Composited(l, p) \subseteq ActiveIds(l, m, p)

\* C2: the buffers produced by drawing a sealed stroke live are identical to
\* the buffers produced by clearing everything and replaying a ledger that
\* holds just that stroke with redrawAll.
C2_ReplayEqualsLive ==
    [][(/\ lastOp = "finalizeCurrentLine"
        /\ startCount = 1
        /\ replays = 0
        /\ Len(lines) = 1
        /\ Step("redrawAll"))
       => ActiveContents' = ActiveContents]_vars

\* C3: toggleDisplayMode and setDisplayMode change only displayMode: every
\* buffer of both models and both regions, activeIndex, the ledger, the
\* in-flight stroke and the brush are the same after the call as before.
C3_DisplayModeOnly ==
    [][(Step("toggleDisplayMode") \/ Step("setDisplayMode"))
       => UNCHANGED <<tex, activeIndex, lines, currentLine, drawing, brush>>]_vars

\* a stroke was drawn and the display mode was switched away and back
C3_Witness ==
    /\ lastOp = "toggleDisplayMode"
    /\ displayMode = "mixbox"
    /\ \E p \in CanvasArea : ActiveIds("canvas", "mixbox", p) # {}

\* C4: clearPalette resets the four palette buffers (both models, both
\* slots) to the background and leaves the four canvas buffers as they were.
C4_ClearPaletteFrame ==
    [][Step("clearPalette")
       => /\ \A m \in Modes, i \in 0..1 : tex'["palette"][m][i] = ClearedBuffer("palette")
          /\ tex'["canvas"] = tex["canvas"]]_vars

\* clearPalette ran on a canvas that holds a stroke
C4_Witness ==
    /\ lastOp = "clearPalette"
    /\ \E p \in CanvasArea : ActiveIds("canvas", "rgb", p) # {}

\* C5: every Brush.draw composites the stroke into both the mixbox and the
\* rgb buffer of the target region in the same call, whatever displayMode is,
\* so the active buffers of the two models hold the same set of strokes.
C5_BothModelsOfTargetRegion ==
    /\ \A l \in Layers, p \in Pos : ActiveIds(l, "mixbox", p) = ActiveIds(l, "rgb", p)
    /\ drawLog # <<>> =>
          LET d == drawLog[Len(drawLog)]
          IN d.region \in Layers =>
                \A m \in Modes, p \in d.cells : d.id \in ActiveIds(d.region, m, p)

\* C6: finalizeCurrentLine appends the in-flight stroke to the ledger exactly
\* once and discards the working reference, also when it runs twice in
\* succession; no operation removes, duplicates or reorders ledger strokes.
C6_LedgerAppendOnly ==
    [][IF Step("finalizeCurrentLine")
       THEN /\ lines' = IF currentLine # NullLine THEN Append(lines, currentLine) ELSE lines
            /\ currentLine' = NullLine
            /\ drawing' = FALSE
       ELSE Strokes(lines') = Strokes(lines)]_vars

\* two strokes were sealed, and finalize ran last
C6_Witness ==
    /\ lastOp = "finalizeCurrentLine"
    /\ Len(lines) = 2
    /\ lines[1].points # lines[2].points
    /\ currentLine = NullLine

\* C7: continueDrawing with no stroke active is a no-op: no point recorded,
\* activeIndex not flipped, no buffer written, the brush's current colours
\* and the ledger unchanged.
C7_ContinueWithoutStroke ==
    [][(Step("continueDrawing") /\ (~drawing \/ currentLine = NullLine))
       => UNCHANGED <<currentLine, drawing, activeIndex, tex, brush, lines>>]_vars

\* a pointer move arrived after the only stroke was drawn and sealed
C7_Witness ==
    /\ lastOp = "continueDrawing"
    /\ currentLine = NullLine
    /\ ~drawing
    /\ Len(lines) = 1
    /\ \E p \in CanvasArea : ActiveIds("canvas", "mixbox", p) # {}

\* C8: startDrawing at a position outside every drawable region is a silent
\* no-op: no stroke becomes active, nothing is appended to the ledger for it
\* and no pixel of any buffer is written on its behalf.
C8_OutsideStartIgnored ==
    /\ currentLine # NullLine => Region(currentLine.points[1]) # "none"
    /\ \A k \in 1..Len(lines) : Region(lines[k].points[1]) # "none"
    /\ \A k \in 1..Len(drawLog) : drawLog[k].region # "none"

C10_ActiveIndexZeroAfterResize == \A i \in resizeActive : i = 0

\* C10 as amended: Canvas.resize leaves the shared active index as it was.
C10_ResizeKeepsActiveIndex ==
    [][Step("resizeCanvas") => resizeActive' = {activeIndex}]_vars

\* Canvas.resize returned with the index flipped by an odd number of draws
C10_Witness == resizeActive = {1}

\* --------------------------------------------------------- path smoothing
\* the strokes smoothed: eleven points, two pixels apart or three
PathIndex == 1..11
FirstCall == 1..7
PathInputs ==
    {[k \in PathIndex |-> 2 * (k - 1) + Cardinality({j \in wide : j < k})] :
        wide \in SUBSET {3, 4, 5, 6, 7, 8, 9}}

InitPath ==
    /\ drawing = TRUE
    /\ \E points \in PathInputs :
          pathLine = [points |-> points, color |-> [c |-> CobaltBlue, a |-> Byte],
                      layer |-> DefaultLayer, drawnPointCount |-> 0]
    /\ smoothPath = NoPaths
    /\ fetchedPoints = <<>>
    /\ currentLine = NullLine
    /\ lines = <<>>
    /\ tex = ClearedTextures
    /\ activeIndex = 0
    /\ displayMode = "mixbox"
    /\ brush = [selectedColor |-> [c |-> CobaltBlue, a |-> Byte],
                currentColorMixbox |-> [c |-> CobaltBlue, a |-> Byte],
                currentColorRGB |-> [c |-> CobaltBlue, a |-> Byte],
                size |-> DefaultSize,
                flow |-> DefaultFlow,
                colorPickupAmount |-> DefaultPickup,
                colorReturnRate |-> DefaultReturn]
    /\ picked = {}
    /\ lastOp = "initialize"
    /\ drawLog = <<>>
    /\ drawCount = 0
    /\ replays = 0
    /\ startCount = 1
    /\ events = 0
    /\ resizeActive = {}
    /\ started = [size |-> DefaultSize, flow |-> DefaultFlow]

PathFrame(op) ==
    /\ events' = events + 1
    /\ lastOp' = op
    /\ UNCHANGED <<engineVars, ghostVars, picked, fetchedPoints>>

\* buildSmoothPath on all the points of the stroke in one call
SmoothWhole ==
    /\ smoothPath.whole = <<>>
    /\ smoothPath' = [smoothPath EXCEPT !.whole = buildSmoothPath(pathLine.points)]
    /\ UNCHANGED pathLine
    /\ PathFrame("smoothWhole")

\* the first incremental call: the points received so far, then markAsDrawn
SmoothFirst ==
    /\ pathLine.drawnPointCount = 0
    /\ LET line == [pathLine EXCEPT !.points = SubSeq(pathLine.points, 1, Cardinality(FirstCall))]
       IN /\ smoothPath' = [smoothPath EXCEPT !.first = buildSmoothPath(getNewPoints(line))]
          /\ pathLine' = [pathLine EXCEPT !.drawnPointCount = markAsDrawn(line).drawnPointCount]
    /\ PathFrame("smoothFirst")

\* the second incremental call, with all the points received
SmoothSecond ==
    /\ pathLine.drawnPointCount = Cardinality(FirstCall)
    /\ smoothPath' = [smoothPath EXCEPT !.second = buildSmoothPath(getNewPoints(pathLine))]
    /\ pathLine' = markAsDrawn(pathLine)
    /\ PathFrame("smoothSecond")

NextPath == SmoothWhole \/ SmoothFirst \/ SmoothSecond

SpecPath == InitPath /\ [][NextPath]_vars

\* 0-based index of the first point of the second window
SecondStart == Max(0, Cardinality(FirstCall) - Overlap)

\* C15: building the smoothed path of the eleven points in one call yields,
\* in the region covered by both windows, the same sample positions as the
\* two incremental calls, the second of which starts three points back.
C15_IncrementalPathAgrees ==
    (smoothPath.whole # <<>> /\ smoothPath.first # <<>> /\ smoothPath.second # <<>>)
    => \A k \in (SecondStart * SegmentsPerSegment + 1)..Len(smoothPath.first) :
          /\ smoothPath.first[k] = smoothPath.whole[k]
          /\ smoothPath.second[k - SecondStart * SegmentsPerSegment] = smoothPath.whole[k]

\* --------------------------------------------------------- the Line class
\* the state AppContext is constructed in, for runs that leave it alone
AppAtRest ==
    /\ drawing = FALSE
    /\ currentLine = NullLine
    /\ lines = <<>>
    /\ tex = ClearedTextures
    /\ activeIndex = 0
    /\ displayMode = "mixbox"
    /\ picked = {}
    /\ lastOp = "initialize"
    /\ drawLog = <<>>
    /\ drawCount = 0
    /\ replays = 0
    /\ startCount = 0
    /\ events = 0
    /\ resizeActive = {}
    /\ started = [size |-> DefaultSize, flow |-> DefaultFlow]

\* the brush as Brush's constructor and the UI set-up leave it
BrushAtRest ==
    [selectedColor |-> [c |-> CobaltBlue, a |-> Byte],
     currentColorMixbox |-> [c |-> CobaltBlue, a |-> Byte],
     currentColorRGB |-> [c |-> CobaltBlue, a |-> Byte],
     size |-> DefaultSize,
     flow |-> DefaultFlow,
     colorPickupAmount |-> DefaultPickup,
     colorReturnRate |-> DefaultReturn]

\* a Line right after its constructor
InitLine ==
    /\ AppAtRest
    /\ brush = BrushAtRest
    /\ \E x \in CanvasArea :
          pathLine = NewLine(x, [c |-> CobaltBlue, a |-> Byte], DefaultLayer)
    /\ smoothPath = NoPaths
    /\ fetchedPoints = <<>>

LineFrame(op) ==
    /\ events' = events + 1
    /\ lastOp' = op
    /\ UNCHANGED <<engineVars, ghostVars, picked, smoothPath>>

\* Line.addPoint
AddPoint(x) ==
    /\ CanHandle
    /\ pathLine' = [pathLine EXCEPT !.points = Append(@, x)]
    /\ UNCHANGED fetchedPoints
    /\ LineFrame("addPoint")

\* a call of Line.getNewPoints
GetNewPoints ==
    /\ CanHandle
    /\ fetchedPoints' = getNewPoints(pathLine)
    /\ UNCHANGED pathLine
    /\ LineFrame("getNewPoints")

\* a call of Line.markAsDrawn
MarkAsDrawn ==
    /\ CanHandle
    /\ pathLine' = markAsDrawn(pathLine)
    /\ UNCHANGED fetchedPoints
    /\ LineFrame("markAsDrawn")

NextLine ==
    \/ \E x \in CanvasArea : AddPoint(x)
    \/ GetNewPoints
    \/ MarkAsDrawn

SpecLine == InitLine /\ [][NextLine]_vars

\* C21: getNewPoints returns the empty list exactly when points.length <=
\* drawnPointCount, otherwise the suffix of points from index
\* max(0, drawnPointCount - 3), so that once 3 points are drawn a window
\* re-includes the 3 drawn last ahead of the new ones; markAsDrawn sets
\* drawnPointCount to points.length.
C21_NewPointsWindow ==
    [][/\ Step("getNewPoints") =>
            LET total == Len(pathLine.points)
                drawn == pathLine.drawnPointCount
                from == IF drawn > 3 THEN drawn - 3 ELSE 0
            IN /\ fetchedPoints' = <<>> <=> total <= drawn
               /\ total > drawn =>
                     /\ Len(fetchedPoints') = total - from
                     /\ \A k \in 1..Len(fetchedPoints') :
                           fetchedPoints'[k] = pathLine.points[from + k]
               /\ (total > drawn /\ drawn >= 3) =>
                     /\ Len(fetchedPoints') = 3 + (total - drawn)
                     /\ \A k \in 1..3 : fetchedPoints'[k] = pathLine.points[drawn - 3 + k]
               /\ UNCHANGED pathLine
       /\ Step("markAsDrawn") =>
            /\ pathLine'.drawnPointCount = Len(pathLine.points)
            /\ pathLine'.points = pathLine.points]_vars

\* four points were marked drawn, one more added, and the window fetched:
\* the last three drawn points and the new one
C21_Witness ==
    /\ lastOp = "getNewPoints"
    /\ pathLine.drawnPointCount = SegmentSize
    /\ Len(pathLine.points) = SegmentSize + 1
    /\ fetchedPoints = SubSeq(pathLine.points, 2, SegmentSize + 1)

\* ------------------------------------------------------ the Brush setters
\* arguments of direct setter calls: numbers below, inside and above the
\* declared ranges (size in pixels, the others in percent), and NaN
SetterArguments == {NaN, -50, 0, 50, 100, 150}

SetterFrame(op) ==
    /\ UNCHANGED <<drawing, currentLine, lines, tex, activeIndex, displayMode, ghostVars>>
    /\ Done(op)

\* calls of Brush.setSize, setFlow, setColorPickupAmount, setColorReturnRate
SetSize(size) == CanHandle /\ brush' = setSize(brush, size) /\ SetterFrame("setSize")
SetFlow(flow) == CanHandle /\ brush' = setFlow(brush, flow) /\ SetterFrame("setFlow")
SetColorPickupAmount(amount) ==
    CanHandle /\ brush' = setColorPickupAmount(brush, amount)
              /\ SetterFrame("setColorPickupAmount")
SetColorReturnRate(rate) ==
    CanHandle /\ brush' = setColorReturnRate(brush, rate)
              /\ SetterFrame("setColorReturnRate")

NextSetters ==
    \/ \E size \in SetterArguments : SetSize(size)
    \/ \E flow \in SetterArguments : SetFlow(flow)
    \/ \E amount \in SetterArguments : SetColorPickupAmount(amount)
    \/ \E rate \in SetterArguments : SetColorReturnRate(rate)

SpecSetters == Init /\ [][NextSetters]_vars

\* C24: in every reachable state the brush configuration is within its
\* declared ranges, size >= 1, flow, colorPickupAmount and colorReturnRate
\* in [0,1], whatever values the four setters are called with.
C24_BrushWithinRanges ==
    /\ brush.size # NaN /\ brush.size >= 1
    /\ brush.flow # NaN /\ 0 <= brush.flow /\ brush.flow <= Percent
    /\ brush.colorPickupAmount # NaN
    /\ 0 <= brush.colorPickupAmount /\ brush.colorPickupAmount <= Percent
    /\ brush.colorReturnRate # NaN
    /\ 0 <= brush.colorReturnRate /\ brush.colorReturnRate <= Percent

\* C25: drawing is true exactly when currentLine is not null, in every
\* reachable state; only startDrawing (setting both) and
\* finalizeCurrentLine (clearing both) change either of them.
C25_DrawingIffCurrentLine ==
    /\ [](drawing <=> currentLine # NullLine)
    /\ [][ /\ Step("startDrawing") => drawing' /\ currentLine' # NullLine
           /\ Step("finalizeCurrentLine") => ~drawing' /\ currentLine' = NullLine
           /\ (~Step("startDrawing") /\ ~Step("finalizeCurrentLine"))
                 => /\ drawing' = drawing
                    /\ (currentLine' = NullLine) <=> (currentLine = NullLine) ]_vars

\* a stroke in flight has been drawn and then replayed by redrawAll
C25_Witness ==
    /\ lastOp = "redrawAll"
    /\ drawing
    /\ currentLine # NullLine
    /\ Len(currentLine.points) >= SegmentSize

\* C26: for the in-flight stroke and every ledger stroke,
\* 0 <= drawnPointCount <= points.length in every reachable state; and
\* when redrawAll returns, every ledger stroke with at least 4 points has
\* drawnPointCount = points.length.
C26_DrawnPointCountBounds ==
    /\ [](/\ currentLine # NullLine =>
               /\ 0 <= currentLine.drawnPointCount
               /\ currentLine.drawnPointCount <= Len(currentLine.points)
           /\ \A k \in 1..Len(lines) :
               /\ 0 <= lines[k].drawnPointCount
               /\ lines[k].drawnPointCount <= Len(lines[k].points))
    /\ [][Step("redrawAll") =>
            \A k \in 1..Len(lines') :
                Len(lines'[k].points) >= SegmentSize
                    => lines'[k].drawnPointCount = Len(lines'[k].points)]_vars

\* redrawAll has replayed a sealed stroke of at least 4 points
C26_Witness ==
    /\ lastOp = "redrawAll"
    /\ \E k \in 1..Len(lines) :
        /\ Len(lines[k].points) >= SegmentSize
        /\ lines[k].drawnPointCount = Len(lines[k].points)

\* C27: no started stroke is lost: in every reachable state the number of
\* ledger strokes plus the in-flight stroke (if any) equals the number of
\* startDrawing calls so far, also when startDrawing is called again
\* while a stroke is in flight.
C27_NoStartedStrokeLost ==
    Len(lines) + (IF currentLine # NullLine THEN 1 ELSE 0) = startCount

\* ------------------------------------------------- one stroke and replays
\* the application right after its first startDrawing, at any cell
InitStroke ==
    /\ drawing = TRUE
    /\ \E x \in Pos : currentLine = NewLine(x, BrushAtRest.selectedColor, DefaultLayer)
    /\ lines = <<>>
    /\ tex = ClearedTextures
    /\ activeIndex = 0
    /\ displayMode = "mixbox"
    /\ brush = BrushAtRest
    /\ picked = {}
    /\ lastOp = "startDrawing"
    /\ drawLog = <<>>
    /\ drawCount = 0
    /\ replays = 0
    /\ startCount = 1
    /\ events = 0
    /\ resizeActive = {}
    /\ started = [size |-> DefaultSize, flow |-> DefaultFlow]
    /\ pathLine = NullLine
    /\ smoothPath = NoPaths
    /\ fetchedPoints = <<>>

\* the handlers that follow a pointer-down when no other stroke is begun
NextStroke ==
    \/ \E x \in Pos : ContinueDrawing(x)
    \/ FinalizeCurrentLine
    \/ ClearPalette
    \/ RedrawAll
    \/ ResizeCanvas

SpecStroke == InitStroke /\ [][NextStroke]_vars

C29_ReplayKeepsBrush ==
    [][(Step("redrawAll") \/ Step("resizeCanvas"))
       => /\ brush'.selectedColor = brush.selectedColor
          /\ brush'.currentColorMixbox = brush.currentColorMixbox
          /\ brush'.currentColorRGB = brush.currentColorRGB]_vars

\* the cells of each buffer with index idx that carry a stamp
StampedCells(t, idx) ==
    [l \in Layers |-> [m \in Modes |-> {p \in Pos : t[l][m][idx][p].ids # {}}]]

\* C30: a resizeCanvas while a stroke is in flight does not roll the stroke
\* back: once the stroke is sealed, the active buffers carry the stamps of
\* all of its points, the same cells as a redrawAll of the resulting ledger
\* stamps.
C30_ResizeKeepsStrokeInFlight ==
    [][(/\ Step("finalizeCurrentLine")
        /\ currentLine # NullLine
        /\ Len(currentLine.points) >= SegmentSize
        /\ lines = <<>>
        /\ startCount = 1
        /\ resizeActive # {})
       => LET r == redrawAll(Engine', lines')
          IN StampedCells(tex', activeIndex') = StampedCells(r.g.tex, r.g.activeIndex)]_vars

\* C11: a change of brush size or flow made while a stroke is in flight does
\* not affect that stroke: every incremental draw of the stroke uses the size
\* and flow in force when the stroke started.
C11_StrokeKeepsStartSettings ==
    [][(Step("continueDrawing") /\ drawCount' = drawCount + 1)
       => LET d == drawLog'[Len(drawLog')]
          IN d.size = started.size /\ d.flow = started.flow]_vars

\* C12: with pickup 1 and return 0, draw calls over a region of one colour
\* whose alpha is above the sampling threshold bring each model's current
\* colour to the region's colour of that model, from the first call on, and
\* every later call over the region leaves it there.
C12_PickupReachesRegionColor ==
    [][(/\ Step("updateBrushColorFromCanvas")
        /\ brush.colorPickupAmount = Percent
        /\ brush.colorReturnRate = 0)
       => /\ PassesThreshold(RegionColor("mixbox"))
               => brush'.currentColorMixbox = RegionColor("mixbox")
          /\ PassesThreshold(RegionColor("rgb"))
               => brush'.currentColorRGB = RegionColor("rgb")]_vars

\* two calls ran at pickup 1, return 0 over thin paint of another colour
C12_Witness ==
    /\ lastOp = "updateBrushColorFromCanvas"
    /\ events >= 2
    /\ brush.colorPickupAmount = Percent
    /\ brush.colorReturnRate = 0
    /\ RegionColor("mixbox") = [c |-> 100, a |-> 26]
    /\ RegionColor("rgb") = [c |-> 40, a |-> 255]
    /\ brush.currentColorMixbox = [c |-> 100, a |-> 26]
    /\ brush.currentColorRGB = [c |-> 40, a |-> 255]

\* C13: with return 1, after every draw call both current colours equal the
\* selected colour, for every pickup amount and every sampled colour, and
\* also when no sampled pixel passes the threshold.
C13_FullReturnRestoresSelected ==
    [][(Step("updateBrushColorFromCanvas") /\ brush.colorReturnRate = Percent)
       => /\ brush'.currentColorMixbox = brush.selectedColor
          /\ brush'.currentColorRGB = brush.selectedColor]_vars

\* a brush carrying black was updated at return 1, pickup one half, one
\* model sampling nothing valid, the other opaque paint
C13_Witness ==
    /\ lastOp = "updateBrushColorFromCanvas"
    /\ events = 1
    /\ brush.colorReturnRate = Percent
    /\ brush.colorPickupAmount = 50
    /\ ~PassesThreshold(RegionColor("mixbox"))
    /\ RegionColor("rgb") = [c |-> 40, a |-> 255]
    /\ brush.currentColorMixbox = brush.selectedColor

\* C14: a stamp with coverage c in (0,1] onto a pixel whose alpha is Ad
\* leaves the pixel with alpha Ad + c(1 - Ad), which is at least Ad and at
\* most 1, and the same in the mixbox and the rgb buffer.
C14_StampAlpha ==
    [][(Step("continueDrawing") /\ drawCount' = drawCount + 1)
       => LET d == drawLog'[Len(drawLog')]
          IN \A p \in d.cells, m \in Modes :
                LET alphaBefore == tex[DefaultLayer][m][activeIndex][p].a
                    alphaAfter == tex'[DefaultLayer][m][activeIndex'][p].a
                IN /\ alphaAfter = Lerp(alphaBefore, Byte, d.flow)
                   /\ alphaAfter >= alphaBefore
                   /\ alphaAfter <= Byte
                   /\ alphaAfter = tex'[DefaultLayer]["rgb"][activeIndex'][p].a]_vars

\* C16: a stroke with fewer than SegmentSize points never reaches the
\* pixel-writing step, neither while it is drawn live nor when redrawAll
\* replays it: Brush.draw runs no pass over the buffers for it.
C16_ShortStrokeNeverDrawn ==
    \A k \in 1..Len(drawLog) : drawLog[k].points >= SegmentSize

\* C17: a sealed stroke records the brush colour that was active when its
\* points were drawn, and redrawAll stamps each replayed window with that
\* recorded colour, not with the brush colour current at replay time (seen
\* on the first stroke of a run, of SegmentSize points or more, sealed and
\* then replayed).
C17_ReplayUsesRecordedColour ==
    [][(/\ lastOp = "finalizeCurrentLine"
        /\ startCount = 1
        /\ replays = 0
        /\ Len(lines) = 1
        /\ Len(lines[1].points) >= SegmentSize
        /\ Step("redrawAll"))
       => /\ Len(drawLog') = Len(drawLog)
          /\ \A k \in 1..Len(drawLog) :
                /\ drawLog[k].color.mixbox = lines[1].color.c
                /\ drawLog[k].color.rgb = lines[1].color.c
                /\ drawLog'[k].color = drawLog[k].color]_vars

\* C18: on every stroke start both current colours are reset to the
\* selected colour.
C18_StartResetsCurrentColours ==
    [][Step("startDrawing")
       => /\ brush'.currentColorMixbox = brush'.selectedColor
          /\ brush'.currentColorRGB = brush'.selectedColor]_vars

\* the stroke in flight with the point of the continueDrawing step appended,
\* before drawIncremental runs, and the window that call draws
LineWithPoint == [currentLine EXCEPT !.points = currentLine'.points]
StepWindow == getNewPoints(LineWithPoint)

\* C19: an incremental update that draws flips the ping-pong index exactly
\* once, before the canvas is sampled and before any stamp is written, and
\* both models are written at the flipped index; an update that is skipped
\* for lack of points flips nothing, writes nothing and leaves
\* drawnPointCount alone.
C19_FlipOncePerDraw ==
    [][(Step("continueDrawing") /\ drawing /\ currentLine # NullLine)
       => IF Len(currentLine'.points) >= SegmentSize
          THEN /\ activeIndex' = 1 - activeIndex
               /\ drawCount' = drawCount + 1
               /\ brush'.currentColorMixbox =
                     UpdatedColor(brush.currentColorMixbox,
                                  tex[DefaultLayer]["mixbox"][activeIndex],
                                  StepWindow[1], brush, TRUE)
               /\ brush'.currentColorRGB =
                     UpdatedColor(brush.currentColorRGB,
                                  tex[DefaultLayer]["rgb"][activeIndex],
                                  StepWindow[1], brush, FALSE)
               /\ \A l \in Layers, m \in Modes :
                     tex'[l][m][activeIndex] = tex[l][m][activeIndex]
               /\ \A m \in Modes, p \in drawLog'[Len(drawLog')].cells :
                     tex'[DefaultLayer][m][activeIndex'][p].ids =
                        tex[DefaultLayer][m][activeIndex][p].ids \cup {drawCount'}
               /\ currentLine'.drawnPointCount = Len(currentLine'.points)
          ELSE /\ UNCHANGED <<activeIndex, tex, brush, drawCount>>
               /\ currentLine'.drawnPointCount = currentLine.drawnPointCount]_vars

\* a skipped update, then two drawing updates of one stroke
C19_Witness ==
    /\ lastOp = "continueDrawing"
    /\ drawing
    /\ Len(currentLine.points) = SegmentSize + 1
    /\ currentLine.drawnPointCount = SegmentSize + 1
    /\ drawCount = 2
    /\ activeIndex = 0
    /\ \E p \in CanvasArea : ActiveIds("canvas", "rgb", p) = {1, 2}

Windows(log) == [k \in 1..Len(log) |-> log[k].window]

\* C22: for a stroke of n >= 4 points, live drawing makes one Brush.draw
\* call per window points[i..i+4), i = 0..n-4, in that order, and redrawAll
\* issues the same sequence of windows for it through the same Brush.draw
\* (seen on the first stroke of a run, in flight and sealed, and on its
\* replay).
C22_ReplayWindowsAsLive ==
    [][/\ (startCount' = 1 /\ replays' = 0 /\ drawCount' = Len(drawLog')) =>
            LET stroke == IF currentLine' # NullLine THEN currentLine'
                          ELSE IF lines' # <<>> THEN lines'[1] ELSE NullLine
                n == Len(stroke.points)
            IN n >= SegmentSize =>
                  /\ Windows(drawLog') =
                        [i \in 1..(n - SegmentSize + 1) |->
                            SubSeq(stroke.points, i, i + SegmentSize - 1)]
                  /\ Windows(drawLog') =
                        [k \in 1..Len(LineWindows(stroke)) |-> LineWindows(stroke)[k].points]
       /\ (/\ lastOp = "finalizeCurrentLine"
           /\ startCount = 1
           /\ replays = 0
           /\ drawCount = Len(drawLog)
           /\ Len(lines) = 1
           /\ Len(lines[1].points) >= SegmentSize
           /\ Step("redrawAll"))
          => Windows(drawLog') = Windows(drawLog)]_vars

\* a stroke of five points was drawn live in two windows and sealed
C22_Witness ==
    /\ lastOp = "finalizeCurrentLine"
    /\ startCount = 1
    /\ replays = 0
    /\ Len(lines) = 1
    /\ Len(lines[1].points) = SegmentSize + 1
    /\ Len(drawLog) = 2
    /\ drawLog[1].window # drawLog[2].window

====
